---- MODULE Spec2Model ----
(***************************************************************************)
(* Batch loaders that read delimited text files and bulk-load them into    *)
(* PostgreSQL tables (import_org_to_postgres.py, import_per_to_postgres.py,*)
(* import_raw_feed_per_to_postgres.py, import_csv_to_postgres.py).         *)
(*                                                                         *)
(* Text is modelled as a sequence of one-character strings, so that        *)
(* clean_value, float() and int() are computed from the characters.        *)
(* The sink is one psycopg2 connection: statements run inside an implicit  *)
(* transaction whose effects are visible to the connection at once and to  *)
(* everybody else at commit; a statement that fails on the server puts the *)
(* transaction into the error state, in which every further statement      *)
(* fails until commit() or rollback() ends it (commit() then rolls back).  *)
(***************************************************************************)
EXTENDS Integers, Sequences, FiniteSets, TLC

\* ------------------------------------------------------------------ bounds
MaxFiles == 2      \* files in the source folder
MaxRows == 3       \* data records per file
MaxBatch == 2      \* batch_size ranges over 1..MaxBatch
MaxRuns == 2       \* runs of main() on one database, or calls of
                   \* import_multiple_files on one connection
MaxFaults == 1     \* statements the server rejects on its own account
MaxEntries == 3    \* entries of the folder handed to get_csv_files on its own

\* ------------------------------------------------------------ value coercer
NULL == [t |-> "null"]
TextV(s) == [t |-> "str", s |-> s]
IntV(i) == [t |-> "int", i |-> i]
BoolV(b) == [t |-> "bool", b |-> b]

\* The schema, projected on one TEXT and one INTEGER column of the table.
COLUMN_DEFINITIONS == << <<"RBID", "TEXT">>, <<"RN", "INTEGER">> >>

Digits == {"0", "1", "2", "3", "4", "5", "6", "7", "8", "9"}

DigitVal(c) ==
    CASE c = "0" -> 0 [] c = "1" -> 1 [] c = "2" -> 2 [] c = "3" -> 3
      [] c = "4" -> 4 [] c = "5" -> 5 [] c = "6" -> 6 [] c = "7" -> 7
      [] c = "8" -> 8 [] c = "9" -> 9

LowerChar(c) ==
    CASE c = "T" -> "t" [] c = "R" -> "r" [] c = "U" -> "u" [] c = "E" -> "e"
      [] c = "F" -> "f" [] c = "A" -> "a" [] c = "L" -> "l" [] c = "S" -> "s"
      [] c = "Y" -> "y" [] c = "N" -> "n" [] c = "O" -> "o" [] c = "I" -> "i"
      [] OTHER -> c

\* Mutation: the comparison is made on the text as written.
Lower_AsWritten(s) == s

\* str.lower()
Lower(s) == [i \in 1..Len(s) |-> LowerChar(s[i])]

AllDigits(s) == \A i \in 1..Len(s) : s[i] \in Digits

RECURSIVE DecimalValue(_)
DecimalValue(s) ==
    IF s = <<>> THEN 0
    ELSE 10 * DecimalValue(SubSeq(s, 1, Len(s) - 1)) + DigitVal(s[Len(s)])

DotPos(s) == {i \in 1..Len(s) : s[i] = "."}

Whitespace == {" ", "\t", "\n", "\r"}

\* str.strip(), which float() applies to its argument.
Strip(s) ==
    LET keep == {i \in 1..Len(s) : s[i] \notin Whitespace}
    IN  IF keep = {} THEN <<>>
        ELSE SubSeq(s, CHOOSE i \in keep : \A j \in keep : i <= j,
                       CHOOSE i \in keep : \A j \in keep : j <= i)

RECURSIVE Pow10(_)
Pow10(k) == IF k <= 0 THEN 1 ELSE 10 * Pow10(k - 1)

\* The digits of s without its zeros at the end.
RECURSIVE DropTrailingZeros(_)
DropTrailingZeros(s) ==
    IF s # <<>> /\ s[Len(s)] = "0" THEN DropTrailingZeros(SubSeq(s, 1, Len(s) - 1))
    ELSE s

\* The value of an exponent's digits, capped where it no longer matters.
ExpValue(s) == IF Len(s) > 6 THEN 1000000 ELSE DecimalValue(s)

\* The one element of a set of one element: TheOne({F(x) : x \in {e}}) is
\* F(e) with e evaluated once.
TheOne(S) == CHOOSE r \in S : TRUE

\* What float() answers: the text is no number, or a number of a class.
NoFloat == [ok |-> FALSE, cls |-> "none", neg |-> FALSE, whole |-> 0, frac |-> <<>>]
Float(cls, neg, whole, frac) ==
    [ok |-> TRUE, cls |-> cls, neg |-> neg, whole |-> whole, frac |-> frac]

\* The sign of a stripped text and what follows it.
SignSplit(t) ==
    [neg |-> t # <<>> /\ t[1] = "-",
     body |-> IF t # <<>> /\ t[1] \in {"+", "-"} THEN SubSeq(t, 2, Len(t)) ELSE t]

\* The mantissa and the exponent of an unsigned literal.
ExpSplit(body) ==
    LET es == {i \in 1..Len(body) : body[i] \in {"e", "E"}}
        e == IF es = {} THEN Len(body) + 1 ELSE CHOOSE i \in es : TRUE
        ex == SubSeq(body, e + 1, Len(body))
        exdigits == IF ex # <<>> /\ ex[1] \in {"+", "-"} THEN SubSeq(ex, 2, Len(ex)) ELSE ex
    IN  IF es = {} THEN [ok |-> TRUE, mant |-> body, exp |-> 0]
        ELSE IF Cardinality(es) > 1 \/ exdigits = <<>> \/ ~AllDigits(exdigits)
          THEN [ok |-> FALSE, mant |-> <<>>, exp |-> 0]
        ELSE [ok |-> TRUE, mant |-> SubSeq(body, 1, e - 1),
              exp |-> IF ex[1] = "-" THEN 0 - ExpValue(exdigits) ELSE ExpValue(exdigits)]

\* The digits of a mantissa before and after its point.
DotSplit(mant) ==
    LET dots == DotPos(mant)
        d == IF dots = {} THEN Len(mant) + 1 ELSE CHOOSE i \in dots : TRUE
        ip == SubSeq(mant, 1, d - 1)
        fp == SubSeq(mant, d + 1, Len(mant))
    IN  [ok |-> /\ Cardinality(dots) <= 1
                /\ AllDigits(ip) /\ AllDigits(fp)
                /\ Len(ip) + Len(fp) > 0,
         ip |-> ip, fp |-> fp]

\* The value of the digits ip.fp times ten to the exp.
FloatOfDigits(neg, ip, fp, exp) ==
    LET D == ip \o fp
        nz == {i \in 1..Len(D) : D[i] # "0"}
        lead == CHOOSE i \in nz : \A j \in nz : i <= j
        point == Len(ip) + exp
        m == point - (lead - 1)     \* integer digits of the value
    IN  IF nz = {} THEN Float("finite", neg, 0, <<>>)
        ELSE IF m > 309 \/ (m = 309 /\ DigitVal(D[lead]) >= 2)
          THEN Float("inf", neg, 0, <<>>)
        ELSE IF m > 9 THEN Float("wide", neg, 0, <<>>)
        ELSE IF point >= Len(D)
          THEN Float("finite", neg, DecimalValue(D) * Pow10(point - Len(D)), <<>>)
        ELSE IF point <= 0
          THEN Float("finite", neg, 0,
                     DropTrailingZeros([i \in 1..(0 - point) |-> "0"] \o D))
        ELSE Float("finite", neg, DecimalValue(SubSeq(D, 1, point)),
                   DropTrailingZeros(SubSeq(D, point + 1, Len(D))))

FloatOfParts(neg, q) ==
    IF ~q.ok THEN NoFloat
    ELSE TheOne({IF r.ok THEN FloatOfDigits(neg, r.ip, r.fp, q.exp) ELSE NoFloat :
                    r \in {DotSplit(q.mant)}})

FloatOfUnsigned(u) ==
    IF Lower(u.body) \in {<<"i", "n", "f">>, <<"i", "n", "f", "i", "n", "i", "t", "y">>}
      THEN Float("inf", u.neg, 0, <<>>)
    ELSE IF Lower(u.body) = <<"n", "a", "n">> THEN Float("nan", u.neg, 0, <<>>)
    ELSE TheOne({FloatOfParts(u.neg, q) : q \in {ExpSplit(u.body)}})

\* float(text): [ok, cls, neg, whole, frac]. cls is "finite" (whole is the
\* integer part, frac the digits after the point), "wide" (a finite value of
\* more than nine integer digits), "inf" or "nan". The grammar covered is
\* [sign] digits [. digits] [e [sign] digits], [sign] inf, [sign] infinity,
\* [sign] nan, with white space around it; a literal overflows to infinity
\* from 2e308 on. Rounding to the nearest double is not modelled.
ParseFloat(s) == TheOne({FloatOfUnsigned(u) : u \in {SignSplit(Strip(s))}})

\* An exception that leaves a parser; inside process_row it leaves process_row.
RAISED == [t |-> "raise"]

\* Mutation: the value is stripped of the white space around it.
clean_value_Strips(value) ==
    IF Strip(value) \in {<<"\\", "N">>, <<>>} THEN NULL ELSE TextV(Strip(value))

clean_value(value) ==
    IF value \in {<<"\\", "N">>, <<"\\", "N">>, <<>>} THEN NULL ELSE TextV(value)

parse_boolean(value) ==
    IF value = NULL \/ value = TextV(<<>>) THEN NULL
    ELSE IF Lower(value.s) \in {<<"t", "r", "u", "e">>, <<"t">>, <<"1">>, <<"y", "e", "s">>}
      THEN BoolV(TRUE)
    ELSE IF Lower(value.s) \in {<<"f", "a", "l", "s", "e">>, <<"f">>, <<"0">>, <<"n", "o">>}
      THEN BoolV(FALSE)
    ELSE NULL

\* int(float(value)): ValueError (unparsable text, nan) is caught,
\* OverflowError (infinity) is not.
parse_integer(value) ==
    IF value = NULL \/ value = TextV(<<>>) THEN NULL
    ELSE TheOne({IF ~f.ok THEN NULL
                 ELSE IF f.cls = "nan" THEN NULL
                 ELSE IF f.cls = "inf" THEN RAISED
                 ELSE IF f.cls = "wide" THEN [t |-> "wideint", neg |-> f.neg]
                 ELSE IntV(IF f.neg THEN 0 - f.whole ELSE f.whole) :
                    f \in {ParseFloat(value.s)}})

parse_numeric(value) ==
    IF value = NULL \/ value = TextV(<<>>) THEN NULL
    ELSE LET f == ParseFloat(value.s)
         IN  IF ~f.ok THEN NULL
             ELSE [t |-> "float", cls |-> f.cls, neg |-> f.neg,
                   whole |-> f.whole, frac |-> f.frac]

\* row.get(col_name, ''): the field of the record, '' when the key is absent.
RowGet(row, col_name) == IF col_name \in DOMAIN row THEN row[col_name] ELSE <<>>

ProcessColumn(row, def) ==
    LET value == clean_value(RowGet(row, def[1]))
    IN  IF def[2] = "BOOLEAN" THEN parse_boolean(value)
        ELSE IF def[2] = "INTEGER" THEN parse_integer(value)
        ELSE IF def[2] = "NUMERIC" THEN parse_numeric(value)
        ELSE value

\* [raised, values]: the tuple of typed values in schema order, or the
\* exception that left one of the parsers.
process_row(row) ==
    LET vals == [i \in 1..Len(COLUMN_DEFINITIONS) |-> ProcessColumn(row, COLUMN_DEFINITIONS[i])]
    IN  IF \E i \in 1..Len(vals) : vals[i] = RAISED
          THEN [raised |-> TRUE, values |-> <<>>]
          ELSE [raised |-> FALSE, values |-> vals]

\* ------------------------------------------------------------------ inputs
\* One line of a file after the header: the fields DictReader yields, or a
\* line whose bytes are not valid UTF-8 (reading it raises UnicodeDecodeError).
RecA == [decodable |-> TRUE, row |-> [RBID |-> <<"a">>, RN |-> <<"7", ".", "0">>]]
RecB == [decodable |-> TRUE, row |-> [RBID |-> <<"a">>, RN |-> <<"\\", "N">>]]
RecInf == [decodable |-> TRUE, row |-> [RBID |-> <<"c">>, RN |-> <<"i", "n", "f">>]]
RecBad == [decodable |-> FALSE, row |-> [RBID |-> <<>>, RN |-> <<>>]]

\* The records of a file: n records that alternate RecA and RecB from `first`
\* on, with the record at position `at` (0: none) replaced by `special`.
FileRows(n, first, at, special) ==
    [j \in 1..n |->
        IF j = at THEN special
        ELSE IF (j % 2 = 1) = (first = "A") THEN RecA ELSE RecB]

\* The contents tried: n plain records for every n, one file that starts with
\* the record that has a NULL, a record that fails coercion first or in the
\* middle, and a line that cannot be decoded after MaxRows - 1 good ones.
FileContents ==
    {FileRows(n, "A", 0, RecBad) : n \in 0..MaxRows}
      \cup {FileRows(MaxRows - 1, "B", 0, RecBad)}
      \cup {FileRows(MaxRows, "A", at, RecInf) : at \in {1, MaxRows - 1}}
      \cup {FileRows(MaxRows, "A", MaxRows, RecBad)}

\* A folder entry: a readable file with its records, or an entry that cannot
\* be opened.
Files ==
    {[exists |-> TRUE, rows |-> c] : c \in FileContents}
      \cup {[exists |-> FALSE, rows |-> <<>>]}

FileLists == UNION {[1..n -> Files] : n \in 0..MaxFiles}

\* The secondary indexes of a dataset, in the order create_indexes creates them.
Indexes(ds) ==
    IF ds = "PER"
      THEN <<"idx_per_rbid", "idx_per_rbid_org", "idx_per_rbid_pao",
             "idx_per_full_name", "idx_per_email", "idx_per_linkedin_url">>
      ELSE IF ds = "CSV"
      THEN <<"idx_company_name", "idx_domain", "idx_linkedin_url_id", "idx_rbid",
             "idx_country_code", "idx_updated_at">>
      ELSE <<"idx_org_company_name", "idx_org_domain", "idx_org_rbid",
             "idx_org_country_code">>

\* ------------------------------------------------------------------- state
VARIABLES
    dataset,      \* "ORG" (drops the table, no duplicate check) or "PER";
                  \* "CSV" is the generic loader, which drops the table too
    mode,         \* "MAIN": main() is run; "CALLS": import_multiple_files is called;
                  \* "SINGLE": main() of the generic loader with CSV_FILE_PATH set
    csv_files,    \* the files of the folder, in get_csv_files order
    batch_size,
    db,           \* committed state of the sink: [exists, rows, indexes]
    tx,           \* the connection's view inside its open transaction
    txstatus,     \* "OK", or "ERROR" after a statement failed
    connection,   \* "None", "open", "closed"
    cursor,       \* "None", "open", "closed"
    pc,           \* position of the program
    run,          \* number of the current run of main() / call
    idx,          \* enumerate index of the file being processed
    pos,          \* records the open reader has yielded
    fh,           \* "open" while a file handle is open
    batch,        \* the batch of import_csv_data
    file_rows,    \* total_rows of import_csv_data
    total_rows,   \* total_rows of import_multiple_files
    exit_code,    \* -1 while running or never run, else the exit status
    faults,       \* statements rejected so far on the server's own account
    trace,        \* what the program did to the files and the sink, in order
    fn,           \* the function called on its own ("none": none so far)
    arg,          \* its argument
    col_type,     \* the declared type of the column, for process_row
    result,       \* what the function returned, or RAISED
    master_pc,    \* position of the master driver
    job,          \* enumerate index of the job of the driver's loop
    results,      \* the driver's results list
    response,     \* the operator's last answer, NULL before the first
    master_exit,  \* -1 while the driver runs, else its exit status
    summary,      \* the summary the driver has logged, NULL before
    history       \* the prompts and the jobs of the driver, in order

vars == <<dataset, mode, csv_files, batch_size, db, tx, txstatus, connection,
          cursor, pc, run, idx, pos, fh, batch, file_rows, total_rows,
          exit_code, faults, trace, fn, arg, col_type, result,
          master_pc, job, results, response, master_exit, summary, history>>

\* The state of a function called on its own, outside a run of a loader.
direct == <<fn, arg, col_type, result>>

config == <<dataset, mode, csv_files, batch_size>>
locals == <<idx, pos, fh, batch, file_rows, total_rows>>

\* The state of the master driver, and its state before main() is entered.
master == <<master_pc, job, results, response, master_exit, summary, history>>

MasterInit ==
    /\ master_pc = "confirm"
    /\ job = 0
    /\ results = <<>>
    /\ response = [t |-> "null"]
    /\ master_exit = -1
    /\ summary = [t |-> "null"]
    /\ history = <<>>

EmptyDb == [exists |-> FALSE, rows |-> <<>>, indexes |-> {}]
CreatedDb == [exists |-> TRUE, rows |-> <<>>, indexes |-> {}]

Event(op, file, n, ok) == [op |-> op, run |-> run, file |-> file, n |-> n, ok |-> ok]

Init ==
    /\ dataset \in {"ORG", "PER"}
    /\ mode \in {"MAIN", "CALLS"}
    /\ mode = "CALLS" => dataset = "PER"
    /\ csv_files \in FileLists
    /\ batch_size \in 1..MaxBatch
    /\ db = IF mode = "CALLS" THEN CreatedDb ELSE EmptyDb
    /\ tx = db
    /\ txstatus = "OK"
    /\ connection = IF mode = "CALLS" THEN "open" ELSE "None"
    /\ cursor = connection
    /\ pc = "idle"
    /\ run = 0
    /\ idx = 0
    /\ pos = 0
    /\ fh = "closed"
    /\ batch = <<>>
    /\ file_rows = 0
    /\ total_rows = 0
    /\ exit_code = -1
    /\ faults = 0
    /\ trace = <<>>
    /\ MasterInit
    /\ fn = "none"
    /\ arg = NULL
    /\ col_type = "TEXT"
    /\ result = NULL

\* -------------------------------------------------------------------- sink
\* The outcomes of a statement sent to the server: it fails when the
\* transaction is already in the error state, and it may be rejected on the
\* server's own account while the budget of such faults lasts.
Outcomes ==
    {f \in BOOLEAN : /\ txstatus = "ERROR" => f
                     /\ (f /\ txstatus = "OK") => faults < MaxFaults}

StatusAfter(fail) == IF fail THEN "ERROR" ELSE txstatus
FaultsAfter(fail) == IF fail /\ txstatus = "OK" THEN faults + 1 ELSE faults

\* Mutation: commit() leaves the work of the transaction pending.
CommitResult_Pending == db

\* connection.commit(): makes the transaction's work durable, or discards it
\* when the transaction is in the error state.
CommitResult == IF txstatus = "OK" THEN tx ELSE db

\* execute_batch(cursor, insert_query, batch) that succeeds.
Inserted(rows) == [tx EXCEPT !.rows = tx.rows \o rows]

\* ------------------------------------------------------------ duplicate guard
\* Mutation: a None value is bound to "col = %s" like any other value.
WherePiece_NoIsNull(i, value) == [col |-> i, isnull |-> FALSE, value |-> value]

\* One conjunct of the WHERE clause for column i: "col IS NULL" for a None
\* value, "col = %s" with the value bound otherwise.
WherePiece(i, value) ==
    IF value = NULL
      THEN [col |-> i, isnull |-> TRUE, value |-> NULL]
      ELSE [col |-> i, isnull |-> FALSE, value |-> value]

\* SQL evaluation of one conjunct on a table row: "=" is true only of two
\* equal values neither of which is NULL.
PieceHolds(piece, r) ==
    IF piece.isnull THEN r.v[piece.col] = NULL
    ELSE r.v[piece.col] # NULL /\ piece.value # NULL /\ r.v[piece.col] = piece.value

WhereClause(values) == [i \in 1..Len(values) |-> WherePiece(i, values[i])]

\* Mutation: the query finds no row.
Selects_Never(where, rows) == FALSE

Selects(where, rows) ==
    \E k \in 1..Len(rows) : \A i \in 1..Len(where) : PieceHolds(where[i], rows[k])

\* The query of is_csv_file_imported is sent iff the first record was read
\* and coerced.
ProbeQueries(file) ==
    /\ file.exists
    /\ file.rows # <<>>
    /\ file.rows[1].decodable
    /\ ~process_row(file.rows[1].row).raised

\* Records is_csv_file_imported takes from the reader.
ProbeReads(file) == IF file.exists /\ file.rows # <<>> THEN 1 ELSE 0

\* The body of is_csv_file_imported ends in its except clause: the file cannot
\* be opened, the first line cannot be decoded, coercion raises, or the query
\* fails.
ProbeRaises(file, fail) ==
    \/ ~file.exists
    \/ file.rows # <<>> /\ ~file.rows[1].decodable
    \/ file.rows # <<>> /\ file.rows[1].decodable /\ process_row(file.rows[1].row).raised
    \/ fail

is_csv_file_imported(file, rows, fail) ==
    IF ~ProbeQueries(file) \/ fail THEN FALSE
    ELSE Selects(WhereClause(process_row(file.rows[1].row).values), rows)

\* -------------------------------------------------------------- bulk loader
\* Mutation: the loop falls through to the import after a positive probe.
Skips_Never(found) == FALSE

\* "if is_csv_file_imported(cursor, csv_file): ... continue"
Skips(found) == found

\* Mutation: the flush waits for one row more than batch_size.
BatchFull_Strict(b) == Len(b) > batch_size

\* "if len(batch) >= batch_size"
BatchFull(b) == Len(b) >= batch_size

\* Mutation: the except clause of the row loop throws the batch away.
AfterRowError_Clears(b) == <<>>

\* The batch as the "except Exception: ... continue" of the row loop leaves it.
AfterRowError(b) == b

\* Mutation: the file is opened without "with", and nothing closes it.
WithExit_Leaks(handle) == handle

\* The end of "with open_csv_file(...) as csvfile", by return or by exception.
WithExit(handle) == "closed"

IterStart == IF dataset = "PER" THEN "probe" ELSE "import_csv_data"

\* Mutation: the except clause of the loop ends the loop ("break").
LoopNext_Break(i, events, total) ==
    LET failed == \E k \in 1..Len(events) : events[k].op = "failed"
    IN  /\ idx' = i + 1
        /\ IF i + 1 > Len(csv_files) \/ failed
             THEN /\ pc' = IF mode = "MAIN" THEN "create_indexes" ELSE "idle"
                  /\ trace' = trace \o events \o <<Event("return", 0, total, TRUE)>>
             ELSE /\ pc' = IterStart
                  /\ trace' = trace \o events

\* Mutation: the except clause of the loop lets the exception go ("raise"),
\* and nothing above the loop handles it.
LoopNext_Propagates(i, events, total) ==
    LET failed == \E k \in 1..Len(events) : events[k].op = "failed"
    IN  /\ idx' = i + 1
        /\ IF failed
             THEN /\ pc' = "raised"
                  /\ trace' = trace \o events
             ELSE IF i + 1 > Len(csv_files)
               THEN /\ pc' = IF mode = "MAIN" THEN "create_indexes" ELSE "idle"
                    /\ trace' = trace \o events \o <<Event("return", 0, total, TRUE)>>
             ELSE /\ pc' = IterStart
                  /\ trace' = trace \o events

\* The loop of import_multiple_files moves past file i: the next iteration,
\* or the return of total when the list is exhausted.
LoopNext(i, events, total) ==
    /\ idx' = i + 1
    /\ IF i + 1 > Len(csv_files)
         THEN /\ pc' = IF mode = "MAIN" THEN "create_indexes" ELSE "idle"
              /\ trace' = trace \o events \o <<Event("return", 0, total, TRUE)>>
         ELSE /\ pc' = IterStart
              /\ trace' = trace \o events

ImportMultipleFiles ==
    /\ pc = "import_multiple_files"
    /\ total_rows' = 0
    /\ LoopNext(0, <<Event("call", 0, Len(csv_files), TRUE)>>, 0)
    /\ UNCHANGED <<config, direct, master, db, tx, txstatus, connection, cursor, run, pos, fh,
                   batch, file_rows, exit_code, faults>>

Call ==
    /\ mode = "CALLS"
    /\ pc = "idle"
    /\ run < MaxRuns
    /\ run' = run + 1
    /\ pc' = "import_multiple_files"
    /\ UNCHANGED <<config, direct, master, db, tx, txstatus, connection, cursor, locals,
                   exit_code, faults, trace>>

LoopProbe ==
    /\ pc = "probe"
    /\ LET file == csv_files[idx]
       IN  \E fail \in (IF ProbeQueries(file) THEN Outcomes ELSE {FALSE}) :
             LET found == is_csv_file_imported(file, tx.rows, fail)
                 events == <<Event("begin", idx, 0, TRUE)>>
                             \o (IF ProbeRaises(file, fail)
                                   THEN <<Event("probe_error", idx,
                                                IF fail THEN 1 ELSE 0, TRUE)>>
                                   ELSE <<>>)
                             \o <<Event("probe", idx, ProbeReads(file), found)>>
             IN  /\ txstatus' = StatusAfter(fail)
                 /\ faults' = FaultsAfter(fail)
                 /\ fh' = IF file.exists THEN WithExit("open") ELSE fh
                 /\ IF Skips(found)
                      THEN LoopNext(idx, events \o <<Event("skip", idx, 0, TRUE)>>,
                                    total_rows)
                      ELSE /\ pc' = "import_csv_data"
                           /\ trace' = trace \o events
                           /\ idx' = idx
    /\ UNCHANGED <<config, direct, master, db, tx, connection, cursor, run, pos, batch,
                   file_rows, total_rows, exit_code>>

Begin == IF dataset = "PER" THEN <<>> ELSE <<Event("begin", idx, 0, TRUE)>>

ImportCsvDataOpen ==
    /\ pc = "import_csv_data"
    /\ file_rows' = 0
    /\ batch' = <<>>
    /\ pos' = 0
    /\ IF csv_files[idx].exists
         THEN /\ fh' = "open"
              /\ pc' = "read"
              /\ idx' = idx
              /\ trace' = trace \o Begin \o <<Event("open", idx, 0, TRUE)>>
         ELSE /\ fh' = "closed"
              /\ LoopNext(idx, Begin \o <<Event("open", idx, 0, FALSE),
                                         Event("failed", idx, 0, TRUE)>>,
                          total_rows)
    /\ UNCHANGED <<config, direct, master, db, tx, txstatus, connection, cursor, run,
                   total_rows, exit_code, faults>>

\* One iteration of "for row in reader", with its try/except.
ImportCsvDataRow ==
    /\ pc = "read"
    /\ pos < Len(csv_files[idx].rows)
    /\ LET rec == csv_files[idx].rows[pos + 1]
           p == process_row(rec.row)
           nb == Append(batch, [v |-> p.values, src |-> <<run, idx, pos + 1>>])
       IN  IF ~rec.decodable
             THEN /\ fh' = WithExit(fh)
                  /\ batch' = <<>>
                  /\ pos' = 0
                  /\ file_rows' = 0
                  /\ LoopNext(idx, <<Event("failed", idx, 0, TRUE)>>, total_rows)
                  /\ UNCHANGED <<tx, txstatus, faults>>
           ELSE IF p.raised
             THEN /\ pos' = pos + 1
                  /\ batch' = AfterRowError(batch)
                  /\ UNCHANGED <<tx, txstatus, faults, fh, file_rows, pc, idx,
                                 trace>>
           ELSE IF BatchFull(nb)
             THEN \E fail \in Outcomes :
                    /\ pos' = pos + 1
                    /\ txstatus' = StatusAfter(fail)
                    /\ faults' = FaultsAfter(fail)
                    /\ trace' = trace \o <<Event("insert", idx, Len(nb), ~fail)>>
                    /\ IF fail
                         THEN /\ batch' = AfterRowError(nb)
                              /\ UNCHANGED <<tx, file_rows>>
                         ELSE /\ tx' = Inserted(nb)
                              /\ file_rows' = file_rows + Len(nb)
                              /\ batch' = <<>>
                    /\ UNCHANGED <<fh, pc, idx>>
           ELSE /\ pos' = pos + 1
                /\ batch' = nb
                /\ UNCHANGED <<tx, txstatus, faults, fh, file_rows, pc, idx, trace>>
    /\ UNCHANGED <<config, direct, master, db, connection, cursor, run, total_rows, exit_code>>

\* The reader is exhausted: the final flush, and the return of total_rows.
ImportCsvDataEnd ==
    /\ pc = "read"
    /\ pos = Len(csv_files[idx].rows)
    /\ fh' = WithExit(fh)
    /\ pos' = 0
    /\ batch' = <<>>
    /\ IF batch = <<>>
         THEN /\ pc' = "commit"
              /\ UNCHANGED <<tx, txstatus, faults, file_rows, idx, trace>>
         ELSE \E fail \in Outcomes :
                /\ txstatus' = StatusAfter(fail)
                /\ faults' = FaultsAfter(fail)
                /\ IF fail
                     THEN /\ file_rows' = 0
                          /\ LoopNext(idx, <<Event("insert", idx, Len(batch), FALSE),
                                             Event("failed", idx, 0, TRUE)>>,
                                      total_rows)
                          /\ UNCHANGED tx
                     ELSE /\ tx' = Inserted(batch)
                          /\ file_rows' = file_rows + Len(batch)
                          /\ pc' = "commit"
                          /\ idx' = idx
                          /\ trace' = trace \o <<Event("insert", idx, Len(batch), TRUE)>>
    /\ UNCHANGED <<config, direct, master, db, connection, cursor, run, total_rows, exit_code>>

\* total_rows += rows_imported; cursor.connection.commit()
LoopCommit ==
    /\ pc = "commit"
    /\ total_rows' = total_rows + file_rows
    /\ db' = CommitResult
    /\ tx' = CommitResult
    /\ txstatus' = "OK"
    /\ file_rows' = 0
    /\ LoopNext(idx, <<Event("commit", idx, file_rows, txstatus = "OK")>>,
                total_rows + file_rows)
    /\ UNCHANGED <<config, direct, master, connection, cursor, run, pos, fh, batch,
                   exit_code, faults>>

\* -------------------------------------------------------------------- main
\* except Exception: connection.rollback(); sys.exit(1); finally: close both.
MainExcept ==
    /\ tx' = db
    /\ txstatus' = "OK"
    /\ cursor' = "closed"
    /\ connection' = "closed"
    /\ exit_code' = 1
    /\ pc' = "idle"

\* psycopg2.connect(**DB_CONFIG); connection.cursor()
MainConnect ==
    /\ mode \in {"MAIN", "SINGLE"}
    /\ pc = "idle"
    /\ run < MaxRuns
    /\ run' = run + 1
    /\ idx' = 0 /\ pos' = 0 /\ fh' = "closed" /\ batch' = <<>>
    /\ file_rows' = 0 /\ total_rows' = 0
    /\ tx' = db
    /\ txstatus' = "OK"
    /\ \E ok \in BOOLEAN :
         IF ok
           THEN /\ connection' = "open"
                /\ cursor' = "open"
                /\ exit_code' = -1
                /\ pc' = "create_table"
           ELSE /\ connection' = "None"
                /\ cursor' = "None"
                /\ exit_code' = 1
                /\ pc' = "idle"
    /\ UNCHANGED <<config, direct, master, db, faults, trace>>

\* Mutation: the DROP removes the table's name and leaves its rows to the
\* table created next.
Dropped_KeepsRows(t) == [t EXCEPT !.exists = FALSE]

\* DROP TABLE IF EXISTS ... CASCADE, in the loaders that have it.
Dropped(t) == IF dataset = "PER" THEN t ELSE EmptyDb

\* create_table(cursor): CREATE TABLE fails when the table exists.
MainCreateTable ==
    /\ pc = "create_table"
    /\ IF Dropped(tx).exists
         THEN /\ MainExcept
              /\ trace' = trace \o <<Event("create_table", 0, 0, FALSE)>>
         ELSE /\ tx' = [Dropped(tx) EXCEPT !.exists = TRUE]
              /\ pc' = "commit_table"
              /\ trace' = trace \o <<Event("create_table", 0, 0, TRUE)>>
              /\ UNCHANGED <<txstatus, cursor, connection, exit_code>>
    /\ UNCHANGED <<config, direct, master, db, run, locals, faults>>

\* Mutation: main() goes on to the files without committing the table.
MainCommitTable_NoCommit ==
    /\ pc = "commit_table"
    /\ pc' = "get_csv_files"
    /\ UNCHANGED <<config, direct, master, db, tx, txstatus, connection, cursor, run,
                   locals, exit_code, faults, trace>>

\* connection.commit() after create_table(cursor)
MainCommitTable ==
    /\ pc = "commit_table"
    /\ db' = CommitResult
    /\ tx' = CommitResult
    /\ txstatus' = "OK"
    /\ pc' = "get_csv_files"
    /\ trace' = trace \o <<Event("commit", 0, 0, txstatus = "OK")>>
    /\ UNCHANGED <<config, direct, master, connection, cursor, run, locals, exit_code, faults>>

\* get_csv_files(CSV_FOLDER_PATH) and the check for an empty list. sys.exit(1)
\* raises SystemExit, which "except Exception" does not catch: only the
\* finally clause runs, and closing the connection discards open work.
MainGetCsvFiles ==
    /\ pc = "get_csv_files"
    /\ \E folder_exists \in BOOLEAN :
         IF ~folder_exists
           THEN /\ MainExcept
                /\ trace' = trace \o <<Event("get_csv_files", 0, 0, FALSE)>>
         ELSE IF csv_files = <<>>
           THEN /\ MainExcept
                /\ trace' = trace \o <<Event("get_csv_files", 0, 0, TRUE)>>
         ELSE /\ pc' = "import_multiple_files"
              /\ trace' = trace \o <<Event("get_csv_files", 0, Len(csv_files), TRUE)>>
              /\ UNCHANGED <<tx, txstatus, cursor, connection, exit_code>>
    /\ UNCHANGED <<config, direct, master, db, run, locals, faults>>

\* create_indexes(cursor): every CREATE INDEX IF NOT EXISTS in list order, each
\* in its own try/except. `first` is the position of the statement the server
\* rejects on its own account (0: none); once one statement has failed the
\* transaction is in the error state and the later ones fail too.
IndexFails(first, k) == txstatus = "ERROR" \/ (first # 0 /\ k >= first)

CreateIndexes ==
    /\ pc = "create_indexes"
    /\ \E first \in 0..Len(Indexes(dataset)) :
         /\ (first # 0 /\ txstatus = "OK") => faults < MaxFaults
         /\ txstatus = "ERROR" => first = 0
         /\ txstatus' = IF first # 0 THEN "ERROR" ELSE txstatus
         /\ faults' = IF first # 0 THEN faults + 1 ELSE faults
         /\ tx' = [tx EXCEPT !.indexes =
                      tx.indexes \cup {Indexes(dataset)[k] : k \in
                          {j \in 1..Len(Indexes(dataset)) : ~IndexFails(first, j)}}]
         /\ trace' = trace \o [k \in 1..Len(Indexes(dataset)) |->
                                  Event("index", 0, k, ~IndexFails(first, k))]
    /\ pc' = "commit_indexes"
    /\ UNCHANGED <<config, direct, master, db, connection, cursor, run, locals, exit_code>>

MainCommitIndexes ==
    /\ pc = "commit_indexes"
    /\ db' = CommitResult
    /\ tx' = CommitResult
    /\ txstatus' = "OK"
    /\ pc' = "statistics"
    /\ trace' = trace \o <<Event("commit", 0, 0, txstatus = "OK")>>
    /\ UNCHANGED <<config, direct, master, connection, cursor, run, locals, exit_code, faults>>

\* The two statistics queries, the success message, and the finally clause.
MainStatistics ==
    /\ pc = "statistics"
    /\ \E fail \in Outcomes :
         /\ faults' = FaultsAfter(fail)
         /\ IF fail
              THEN MainExcept
              ELSE /\ cursor' = "closed"
                   /\ connection' = "closed"
                   /\ exit_code' = 0
                   /\ pc' = "idle"
                   /\ UNCHANGED <<tx, txstatus>>
         /\ trace' = trace \o <<Event("statistics", 0, Len(tx.rows), ~fail)>>
    /\ UNCHANGED <<config, direct, master, db, run, locals>>

Next ==
    \/ MainConnect
    \/ MainCreateTable
    \/ MainCommitTable
    \/ MainGetCsvFiles
    \/ Call
    \/ ImportMultipleFiles
    \/ LoopProbe
    \/ ImportCsvDataOpen
    \/ ImportCsvDataRow
    \/ ImportCsvDataEnd
    \/ LoopCommit
    \/ CreateIndexes
    \/ MainCommitIndexes
    \/ MainStatistics

Spec == Init /\ [][Next]_vars

\* ------------------------------------------------- runs of main() to their end
\* The folder entries of the runs followed to their end: an entry that cannot
\* be opened, a file of good records, one whose second record fails coercion,
\* and one whose last line cannot be decoded.
LiveFiles ==
    {[exists |-> FALSE, rows |-> <<>>],
     [exists |-> TRUE, rows |-> FileRows(MaxRows - 1, "A", 0, RecBad)],
     [exists |-> TRUE, rows |-> FileRows(MaxRows, "A", MaxRows - 1, RecInf)],
     [exists |-> TRUE, rows |-> FileRows(MaxRows, "A", MaxRows, RecBad)]}

LiveInit ==
    /\ Init
    /\ mode = "MAIN"
    /\ csv_files \in UNION {[1..n -> LiveFiles] : n \in 0..MaxFiles}

MainNext ==
    \/ MainConnect
    \/ MainCreateTable
    \/ MainCommitTable
    \/ MainGetCsvFiles
    \/ ImportMultipleFiles
    \/ LoopProbe
    \/ ImportCsvDataOpen
    \/ ImportCsvDataRow
    \/ ImportCsvDataEnd
    \/ LoopCommit
    \/ CreateIndexes
    \/ MainCommitIndexes
    \/ MainStatistics

\* The process is sequential and nothing it waits for is modelled as absent:
\* while a step of main() is possible, one is taken.
LiveSpec == LiveInit /\ [][MainNext]_vars /\ WF_vars(MainNext)

\* ------------------------------------ the generic loader, single-file mode
\* import_csv_to_postgres.py with CSV_FILE_PATH set: main() imports the one
\* file with import_csv_data and commits. csv_files holds that file.

\* Mutation: the exception of import_csv_data is logged and the run goes on,
\* as the loop of the folder mode does.
SingleFileRaises_Swallowed(events) ==
    /\ pc' = "single_commit"
    /\ trace' = trace \o events
    /\ UNCHANGED <<tx, txstatus, cursor, connection, exit_code>>

\* import_csv_data logs and re-raises; main() rolls back and exits with 1.
SingleFileRaises(events) ==
    /\ MainExcept
    /\ trace' = trace \o events

\* "if CSV_FILE_PATH:" and the open of import_csv_data
SingleImportOpen ==
    /\ mode = "SINGLE"
    /\ pc = "get_csv_files"
    /\ idx' = 1
    /\ file_rows' = 0
    /\ batch' = <<>>
    /\ pos' = 0
    /\ IF csv_files[1].exists
         THEN /\ fh' = "open"
              /\ pc' = "single_read"
              /\ trace' = trace \o <<Event("begin", 1, 0, TRUE), Event("open", 1, 0, TRUE)>>
              /\ UNCHANGED <<tx, txstatus, cursor, connection, exit_code>>
         ELSE /\ fh' = "closed"
              /\ SingleFileRaises(<<Event("begin", 1, 0, TRUE),
                                    Event("open", 1, 0, FALSE),
                                    Event("failed", 1, 0, TRUE)>>)
    /\ UNCHANGED <<config, direct, master, db, run, total_rows, faults>>

\* One iteration of "for row in reader": the inner try covers process_row
\* and the flush of a full batch; a line that cannot be decoded raises from
\* the reader, outside it.
SingleImportRow ==
    /\ pc = "single_read"
    /\ pos < Len(csv_files[idx].rows)
    /\ LET rec == csv_files[idx].rows[pos + 1]
           p == process_row(rec.row)
           nb == Append(batch, [v |-> p.values, src |-> <<run, idx, pos + 1>>])
       IN  IF ~rec.decodable
             THEN /\ fh' = WithExit(fh)
                  /\ batch' = <<>>
                  /\ pos' = 0
                  /\ file_rows' = 0
                  /\ SingleFileRaises(<<Event("failed", idx, 0, TRUE)>>)
                  /\ UNCHANGED faults
           ELSE IF p.raised
             THEN /\ pos' = pos + 1
                  /\ batch' = AfterRowError(batch)
                  /\ UNCHANGED <<tx, txstatus, faults, fh, file_rows, pc, trace,
                                 cursor, connection, exit_code>>
           ELSE IF BatchFull(nb)
             THEN \E fail \in Outcomes :
                    /\ pos' = pos + 1
                    /\ txstatus' = StatusAfter(fail)
                    /\ faults' = FaultsAfter(fail)
                    /\ trace' = trace \o <<Event("insert", idx, Len(nb), ~fail)>>
                    /\ IF fail
                         THEN /\ batch' = AfterRowError(nb)
                              /\ UNCHANGED <<tx, file_rows>>
                         ELSE /\ tx' = Inserted(nb)
                              /\ file_rows' = file_rows + Len(nb)
                              /\ batch' = <<>>
                    /\ UNCHANGED <<fh, pc, cursor, connection, exit_code>>
           ELSE /\ pos' = pos + 1
                /\ batch' = nb
                /\ UNCHANGED <<tx, txstatus, faults, fh, file_rows, pc, trace,
                               cursor, connection, exit_code>>
    /\ UNCHANGED <<config, direct, master, db, run, idx, total_rows>>

\* The reader is exhausted: "if batch:" flushes what is left, outside the
\* inner try, and import_csv_data returns total_rows.
SingleImportEnd ==
    /\ pc = "single_read"
    /\ pos = Len(csv_files[idx].rows)
    /\ fh' = WithExit(fh)
    /\ pos' = 0
    /\ batch' = <<>>
    /\ IF batch = <<>>
         THEN /\ pc' = "single_commit"
              /\ UNCHANGED <<tx, txstatus, faults, file_rows, trace,
                             cursor, connection, exit_code>>
         ELSE \E fail \in Outcomes :
                /\ faults' = FaultsAfter(fail)
                /\ IF fail
                     THEN /\ file_rows' = 0
                          /\ SingleFileRaises(<<Event("insert", idx, Len(batch), FALSE),
                                                Event("failed", idx, 0, TRUE)>>)
                     ELSE /\ tx' = Inserted(batch)
                          /\ txstatus' = StatusAfter(fail)
                          /\ file_rows' = file_rows + Len(batch)
                          /\ pc' = "single_commit"
                          /\ trace' = trace \o <<Event("insert", idx, Len(batch), TRUE)>>
                          /\ UNCHANGED <<cursor, connection, exit_code>>
    /\ UNCHANGED <<config, direct, master, db, run, idx, total_rows>>

\* total_rows = import_csv_data(cursor, CSV_FILE_PATH); connection.commit()
SingleCommit ==
    /\ pc = "single_commit"
    /\ total_rows' = file_rows
    /\ file_rows' = 0
    /\ db' = CommitResult
    /\ tx' = CommitResult
    /\ txstatus' = "OK"
    /\ pc' = "create_indexes"
    /\ trace' = trace \o <<Event("commit", idx, file_rows, txstatus = "OK"),
                           Event("return", 0, file_rows, TRUE)>>
    /\ UNCHANGED <<config, direct, master, connection, cursor, run, idx, pos, fh, batch,
                   exit_code, faults>>

SingleInit ==
    /\ dataset = "CSV"
    /\ mode = "SINGLE"
    /\ csv_files \in [1..1 -> Files]
    /\ batch_size \in 1..MaxBatch
    /\ db = EmptyDb
    /\ tx = db
    /\ txstatus = "OK"
    /\ connection = "None"
    /\ cursor = "None"
    /\ pc = "idle"
    /\ run = 0
    /\ idx = 0
    /\ pos = 0
    /\ fh = "closed"
    /\ batch = <<>>
    /\ file_rows = 0
    /\ total_rows = 0
    /\ exit_code = -1
    /\ faults = 0
    /\ trace = <<>>
    /\ MasterInit
    /\ fn = "none"
    /\ arg = NULL
    /\ col_type = "TEXT"
    /\ result = NULL

SingleNext ==
    \/ MainConnect
    \/ MainCreateTable
    \/ MainCommitTable
    \/ SingleImportOpen
    \/ SingleImportRow
    \/ SingleImportEnd
    \/ SingleCommit
    \/ CreateIndexes
    \/ MainCommitIndexes
    \/ MainStatistics

SingleSpec == SingleInit /\ [][SingleNext]_vars

\* ----------------------------------------------- the coercer, called directly
ColumnTypes == {"TEXT", "INTEGER", "NUMERIC", "BOOLEAN", "DATE", "TIMESTAMP"}

\* The NULL markers: '', backslash N, and backslash backslash N.
Marker1 == <<"\\", "N">>
Marker2 == <<"\\", "\\", "N">>

\* The texts tried as fields and as arguments.
Texts ==
    {<<>>, Marker1, Marker2,
     <<"7", ".", "0">>, <<"4", "2", ".", "0">>, <<"-", "3", ".", "9">>,
     <<"0">>, <<"1">>, <<" ", "7">>, <<"2", "e", "3">>, <<".", "5">>,
     <<"a", "b", "c">>, <<"i", "n", "f">>, <<"-", "I", "n", "f">>,
     <<"1", "e", "9", "9", "9">>, <<"n", "a", "n">>, <<"1", "e", "1", "2">>,
     <<"t", "r", "u", "e">>, <<"T", "R", "U", "E">>, <<"T">>, <<"Y", "e", "s">>,
     <<"f", "a", "l", "s", "e">>, <<"F", "a", "l", "s", "e">>, <<"f">>,
     <<"N", "O">>, <<"n">>, <<"y">>, <<"o", "n">>,
     <<" ", "t", "r", "u", "e">>, <<"t", "r", "u", "e", " ">>, <<"2">>}

\* Optional[str]: None or a text.
Args == {NULL} \cup {TextV(s) : s \in Texts}

CoerceInit ==
    /\ dataset = "ORG"
    /\ mode = "MAIN"
    /\ csv_files = <<>>
    /\ batch_size = 1
    /\ db = EmptyDb
    /\ tx = db
    /\ txstatus = "OK"
    /\ connection = "None"
    /\ cursor = "None"
    /\ pc = "idle"
    /\ run = 0
    /\ idx = 0
    /\ pos = 0
    /\ fh = "closed"
    /\ batch = <<>>
    /\ file_rows = 0
    /\ total_rows = 0
    /\ exit_code = -1
    /\ faults = 0
    /\ trace = <<>>
    /\ MasterInit
    /\ fn = "none"
    /\ arg \in Args
    /\ col_type \in ColumnTypes
    /\ result = NULL

loader == <<config, db, tx, txstatus, connection, cursor, pc, run, locals,
            exit_code, faults, trace>>

program == <<loader, master>>

\* process_row on a record whose one field holds the text, under a schema
\* whose one column has the declared type.
CallProcessRow ==
    /\ fn = "none"
    /\ arg # NULL
    /\ fn' = "process_row"
    /\ result' = ProcessColumn([FIELD |-> arg.s], <<"FIELD", col_type>>)
    /\ UNCHANGED <<program, arg, col_type>>

CallCleanValue ==
    /\ fn = "none"
    /\ arg # NULL
    /\ fn' = "clean_value"
    /\ result' = clean_value(arg.s)
    /\ UNCHANGED <<program, arg, col_type>>

CallParseInteger ==
    /\ fn = "none"
    /\ fn' = "parse_integer"
    /\ result' = parse_integer(arg)
    /\ UNCHANGED <<program, arg, col_type>>

CallParseBoolean ==
    /\ fn = "none"
    /\ fn' = "parse_boolean"
    /\ result' = parse_boolean(arg)
    /\ UNCHANGED <<program, arg, col_type>>

CallParseNumeric ==
    /\ fn = "none"
    /\ fn' = "parse_numeric"
    /\ result' = parse_numeric(arg)
    /\ UNCHANGED <<program, arg, col_type>>

CoerceNext ==
    \/ CallProcessRow
    \/ CallCleanValue
    \/ CallParseInteger
    \/ CallParseBoolean
    \/ CallParseNumeric

CoerceSpec == CoerceInit /\ [][CoerceNext]_vars

\* --------------------------------------- the enumerator, called directly
\* Code points of the characters that occur in the names tried.
CodePoint(c) ==
    CASE c = "." -> 46 [] c = "/" -> 47 [] c = "A" -> 65 [] c = "a" -> 97
      [] c = "b" -> 98 [] c = "c" -> 99 [] c = "d" -> 100 [] c = "g" -> 103
      [] c = "s" -> 115 [] c = "t" -> 116 [] c = "v" -> 118 [] c = "x" -> 120
      [] c = "z" -> 122

\* a < b for two str values: at the first position where they differ the
\* code point decides; a proper prefix is smaller.
StrLess(a, b) ==
    LET diff == {i \in 1..Len(a) : i > Len(b) \/ a[i] # b[i]}
        k == CHOOSE i \in diff : \A j \in diff : i <= j
    IN  IF diff = {} THEN Len(a) < Len(b)
        ELSE k <= Len(b) /\ CodePoint(a[k]) < CodePoint(b[k])

\* The pattern "*" + suffix of Path.glob, matched against a name.
EndsWith(name, suffix) ==
    /\ Len(name) >= Len(suffix)
    /\ SubSeq(name, Len(name) - Len(suffix) + 1, Len(name)) = suffix

\* folder.glob(pattern): the matching entries, in directory order.
Glob(names, suffix) == SelectSeq(names, LAMBDA n : EndsWith(n, suffix))

\* str(f) for an entry f of the folder.
FolderPrefix == <<"d", "/">>
PathStr(name) == FolderPrefix \o name

RECURSIVE Insert(_, _)
Insert(x, seq) ==
    IF seq = <<>> THEN <<x>>
    ELSE IF StrLess(x, seq[1]) THEN <<x>> \o seq
    ELSE <<seq[1]>> \o Insert(x, Tail(seq))

RECURSIVE sorted(_)

\* Mutation: the paths are returned as the two globs yielded them.
sorted_AsListed(seq) == seq

\* sorted(list of str)
sorted(seq) == IF seq = <<>> THEN <<>> ELSE Insert(seq[1], sorted(Tail(seq)))

get_csv_files(folder) ==
    IF ~folder.exists THEN [raised |-> TRUE, files |-> <<>>]
    ELSE LET csv_found == Glob(folder.names, <<".", "c", "s", "v">>)
                            \o Glob(folder.names, <<".", "c", "s", "v", ".", "g", "z">>)
         IN  [raised |-> FALSE,
              files |-> sorted([i \in 1..Len(csv_found) |-> PathStr(csv_found[i])])]

\* The names tried as entries of the folder.
EntryNames ==
    {<<"b", ".", "c", "s", "v">>, <<"a", ".", "c", "s", "v", ".", "g", "z">>,
     <<"c", ".", "c", "s", "v">>, <<"a", ".", "t", "x", "t">>,
     <<"A", ".", "c", "s", "v">>, <<"d", ".", "g", "z">>,
     <<"a", ".", "c", "s", "v", ".", "b">>}

\* A folder: absent, or its entries in the order the directory lists them.
Folders ==
    {[exists |-> FALSE, names |-> <<>>]}
      \cup {[exists |-> TRUE, names |-> l] :
              l \in {q \in UNION {[1..n -> EntryNames] : n \in 0..MaxEntries} :
                       \A i, j \in 1..Len(q) : i # j => q[i] # q[j]}}

EnumInit ==
    /\ dataset = "ORG"
    /\ mode = "MAIN"
    /\ csv_files = <<>>
    /\ batch_size = 1
    /\ db = EmptyDb
    /\ tx = db
    /\ txstatus = "OK"
    /\ connection = "None"
    /\ cursor = "None"
    /\ pc = "idle"
    /\ run = 0
    /\ idx = 0
    /\ pos = 0
    /\ fh = "closed"
    /\ batch = <<>>
    /\ file_rows = 0
    /\ total_rows = 0
    /\ exit_code = -1
    /\ faults = 0
    /\ trace = <<>>
    /\ MasterInit
    /\ fn = "none"
    /\ arg \in Folders
    /\ col_type = "TEXT"
    /\ result = NULL

CallGetCsvFiles ==
    /\ fn = "none"
    /\ fn' = "get_csv_files"
    /\ result' = get_csv_files(arg)
    /\ UNCHANGED <<program, arg, col_type>>

EnumNext == CallGetCsvFiles

EnumSpec == EnumInit /\ [][EnumNext]_vars

\* ------------------------------------------- process_row on whole records
\* columns = [col_name for col_name, _ in COLUMN_DEFINITIONS]: the column
\* list of the INSERT statement and of the duplicate probe.
columns == [i \in 1..Len(COLUMN_DEFINITIONS) |-> COLUMN_DEFINITIONS[i][1]]

\* The keys and the fields of the records tried: the two columns of the
\* schema, a key that differs from a column in letter case, and a key the
\* schema does not have.
RecordKeys == {"RBID", "RN", "rbid", "EXTRA"}
RecordFields == {<<"a">>, <<"7", ".", "0">>, Marker1, <<"i", "n", "f">>}

\* A record as csv.DictReader yields it: a dict on some of the keys.
RawRecords == UNION {[K -> RecordFields] : K \in SUBSET RecordKeys}

RecordInit ==
    /\ dataset = "ORG"
    /\ mode = "MAIN"
    /\ csv_files = <<>>
    /\ batch_size = 1
    /\ db = EmptyDb
    /\ tx = db
    /\ txstatus = "OK"
    /\ connection = "None"
    /\ cursor = "None"
    /\ pc = "idle"
    /\ run = 0
    /\ idx = 0
    /\ pos = 0
    /\ fh = "closed"
    /\ batch = <<>>
    /\ file_rows = 0
    /\ total_rows = 0
    /\ exit_code = -1
    /\ faults = 0
    /\ trace = <<>>
    /\ MasterInit
    /\ fn = "none"
    /\ arg \in RawRecords
    /\ col_type = "TEXT"
    /\ result = NULL

CallProcessRecord ==
    /\ fn = "none"
    /\ fn' = "process_row"
    /\ result' = process_row(arg)
    /\ UNCHANGED <<program, arg, col_type>>

RecordNext == CallProcessRecord

RecordSpec == RecordInit /\ [][RecordNext]_vars

\* ----------------------------------------------------------- master driver
\* import_all_to_postgres.py: the jobs of import_jobs, in list order.
import_jobs ==
    << [script |-> "import_org_to_postgres.py", name |-> "ORGANIZATION (ORG)"],
       [script |-> "import_per_to_postgres.py", name |-> "PERSON (PER)"],
       [script |-> "import_raw_feed_per_to_postgres.py", name |-> "RAW FEED PERSON"] >>

\* What input() can give: the line the operator typed, or an exception when
\* the input has ended (EOFError) or the operator presses Ctrl+C.
Typed == {<<"y">>, <<"Y">>, <<"n">>, <<>>, <<"y", "e", "s">>, <<" ", "y">>}
Inputs == {TextV(s) : s \in Typed} \cup {[t |-> "EOFError"], [t |-> "KeyboardInterrupt"]}

\* How the subprocess of a job can end: the exit status of the script, an
\* error of subprocess.run itself, or Ctrl+C while it runs.
JobEnds == {[t |-> "exit", code |-> c] : c \in 0..2}
             \cup {[t |-> "OSError"], [t |-> "KeyboardInterrupt"]}

\* Mutation: every answer counts as a yes.
Declines_Never(r) == FALSE

\* response.lower() != 'y'
Declines(r) == Lower(r.s) # <<"y">>

\* The handlers under `if __name__ == "__main__"`: status 130 on Ctrl+C,
\* 1 on any other exception that leaves main().
MasterRaises(e) ==
    /\ master_exit' = IF e.t = "KeyboardInterrupt" THEN 130 ELSE 1
    /\ master_pc' = "exited"

\* response = input("Ready to start imports? (y/n): ")
MasterConfirm ==
    /\ master_pc = "confirm"
    /\ \E r \in Inputs :
         /\ response' = r
         /\ history' = history \o <<[op |-> "input", job |-> 0, v |-> r]>>
         /\ IF r.t # "str"
              THEN MasterRaises(r) /\ UNCHANGED <<job, results>>
              ELSE IF Declines(r)
                     THEN /\ master_exit' = 0
                          /\ master_pc' = "exited"
                          /\ UNCHANGED <<job, results>>
                     ELSE /\ results' = <<>>
                          /\ job' = 1
                          /\ master_pc' = "loop"
                          /\ UNCHANGED master_exit
    /\ UNCHANGED <<loader, direct, summary>>

\* for idx, job in enumerate(import_jobs, 1): run_import_script starts the
\* script of the job as a subprocess; the summary follows the last job.
MasterStartJob ==
    /\ master_pc = "loop"
    /\ IF job > Len(import_jobs)
         THEN /\ master_pc' = "summary"
              /\ UNCHANGED history
         ELSE /\ master_pc' = "running"
              /\ history' = history \o <<[op |-> "start", job |-> job,
                                          v |-> TextV(import_jobs[job].script)]>>
    /\ UNCHANGED <<loader, direct, job, results, response, master_exit, summary>>

\* subprocess.run(..., check=True) returns or raises; results.append(...);
\* a job that did not succeed leads to the second prompt.
MasterJobEnds ==
    /\ master_pc = "running"
    /\ \E e \in JobEnds :
         /\ history' = history \o <<[op |-> "end", job |-> job, v |-> e]>>
         /\ IF e.t = "KeyboardInterrupt"
              THEN MasterRaises(e) /\ UNCHANGED <<job, results>>
              ELSE LET success == e.t = "exit" /\ e.code = 0
                   IN  /\ results' = Append(results, [name |-> import_jobs[job].name,
                                                       success |-> success])
                       /\ job' = IF success THEN job + 1 ELSE job
                       /\ master_pc' = IF success THEN "loop" ELSE "ask"
                       /\ UNCHANGED master_exit
    /\ UNCHANGED <<loader, direct, response, summary>>

\* response = input("Continue with remaining imports? (y/n): ")
MasterAsk ==
    /\ master_pc = "ask"
    /\ \E r \in Inputs :
         /\ response' = r
         /\ history' = history \o <<[op |-> "input", job |-> job, v |-> r]>>
         /\ IF r.t # "str"
              THEN MasterRaises(r) /\ UNCHANGED job
              ELSE IF Declines(r)
                     THEN /\ master_pc' = "summary"
                          /\ UNCHANGED <<job, master_exit>>
                     ELSE /\ job' = job + 1
                          /\ master_pc' = "loop"
                          /\ UNCHANGED master_exit
    /\ UNCHANGED <<loader, direct, results, summary>>

\* The results table, the counts, and sys.exit(0) or sys.exit(1).
MasterSummary ==
    /\ master_pc = "summary"
    /\ LET success_count == Cardinality({i \in 1..Len(results) : results[i].success})
           failed_count == Len(results) - success_count
       IN  /\ summary' = [lines |-> [i \in 1..Len(results) |->
                                       [status |-> IF results[i].success
                                                     THEN "SUCCESS" ELSE "FAILED",
                                        name |-> results[i].name]],
                          succeeded |-> success_count,
                          failed |-> failed_count,
                          jobs |-> Len(results)]
           /\ master_exit' = IF failed_count = 0 THEN 0 ELSE 1
    /\ master_pc' = "exited"
    /\ UNCHANGED <<loader, direct, job, results, response, history>>

DriverInit ==
    /\ Init
    /\ dataset = "ORG"
    /\ mode = "MAIN"
    /\ csv_files = <<>>
    /\ batch_size = 1

DriverNext ==
    \/ MasterConfirm
    \/ MasterStartJob
    \/ MasterJobEnds
    \/ MasterAsk
    \/ MasterSummary

DriverSpec == DriverInit /\ [][DriverNext]_vars

\* ------------------------------------------------------- reading the trace
EventsOf(r, f, op) ==
    SelectSeq(trace, LAMBDA e : e.run = r /\ e.file = f /\ e.op = op)

Happened(r, f, op) == EventsOf(r, f, op) # <<>>

\* The rows of call r, file f in a table, in table order.
RowsOf(rows, r, f) == SelectSeq(rows, LAMBDA x : x.src[1] = r /\ x.src[2] = f)

\* The sizes of the bulk inserts of call r, file f, in call order.
InsertSizes(r, f) ==
    LET ins == EventsOf(r, f, "insert") IN [k \in 1..Len(ins) |-> ins[k].n]

NoInsertFailed(r, f) ==
    \A k \in 1..Len(trace) :
        (trace[k].run = r /\ trace[k].file = f /\ trace[k].op = "insert") => trace[k].ok

RECURSIVE SumN(_)
SumN(events) == IF events = <<>> THEN 0 ELSE events[1].n + SumN(Tail(events))

AllDecodable(file) == file.exists /\ \A j \in 1..Len(file.rows) : file.rows[j].decodable

Coercible(file) == {j \in 1..Len(file.rows) : ~process_row(file.rows[j].row).raised}

\* The typed rows a complete import of file f in call r puts into the table.
ExpectedRows(r, f) ==
    LET file == csv_files[f]
        all == [j \in 1..Len(file.rows) |->
                   [v |-> process_row(file.rows[j].row).values, src |-> <<r, f, j>>,
                    kept |-> j \in Coercible(file)]]
        kept == SelectSeq(all, LAMBDA x : x.kept)
    IN  [k \in 1..Len(kept) |-> [v |-> kept[k].v, src |-> kept[k].src]]

ExpectedSizes(n, b) ==
    [k \in 1..((n + b - 1) \div b) |-> IF k * b <= n THEN b ELSE n % b]

\* C5: when no row and no insert fails, a file of n records is loaded with
\* ceil(n/b) bulk inserts, in row order, each of b rows except a last one of
\* n mod b rows, none when n = 0, and import_csv_data returns n.
C5_BatchSizes ==
    (/\ pc = "commit"
     /\ AllDecodable(csv_files[idx])
     /\ Coercible(csv_files[idx]) = 1..Len(csv_files[idx].rows)
     /\ NoInsertFailed(run, idx))
    => /\ InsertSizes(run, idx) = ExpectedSizes(Len(csv_files[idx].rows), batch_size)
       /\ file_rows = Len(csv_files[idx].rows)
       /\ RowsOf(tx.rows, run, idx) = ExpectedRows(run, idx)

C5_Witness ==
    /\ pc = "commit"
    /\ Len(csv_files[idx].rows) = 3
    /\ Coercible(csv_files[idx]) = 1..3
    /\ batch_size = 2
    /\ InsertSizes(run, idx) = <<2, 1>>
    /\ file_rows = 3

\* C6: a record whose coercion raises is dropped alone: the other records of
\* the file are inserted in their order, import_csv_data returns the number of
\* records less the failed ones, and the loop goes on to the next file.
C6_RowFailure ==
    /\ (/\ pc = "commit"
        /\ AllDecodable(csv_files[idx])
        /\ NoInsertFailed(run, idx))
       => /\ RowsOf(tx.rows, run, idx) = ExpectedRows(run, idx)
          /\ file_rows = Cardinality(Coercible(csv_files[idx]))
    /\ \A k \in 1..(Len(trace) - 1) :
         (/\ trace[k].op = "commit"
          /\ trace[k].file > 0
          /\ Coercible(csv_files[trace[k].file])
               # 1..Len(csv_files[trace[k].file].rows))
         => IF trace[k].file < Len(csv_files)
              THEN trace[k + 1].op = "begin" /\ trace[k + 1].file = trace[k].file + 1
              ELSE trace[k + 1].op = "return"

C6_Witness ==
    /\ pc = "commit"
    /\ AllDecodable(csv_files[idx])
    /\ Len(csv_files[idx].rows) = 3
    /\ Coercible(csv_files[idx]) = {1, 3}
    /\ file_rows = 2
    /\ Len(RowsOf(tx.rows, run, idx)) = 2

\* C4: import_multiple_files attempts every file of its list once, in list
\* order, whatever files fail; it returns; and the total it returns is the sum
\* of the counts import_csv_data returned for the files that did not fail.
C4_EveryFileAttempted ==
    /\ \A k \in 1..Len(trace) :
         trace[k].op = "return" =>
           LET r == trace[k].run
               begins == SelectSeq(trace, LAMBDA e : e.run = r /\ e.op = "begin")
               commits == SelectSeq(trace, LAMBDA e : e.run = r /\ e.op = "commit"
                                                       /\ e.file > 0)
           IN  /\ [i \in 1..Len(begins) |-> begins[i].file]
                    = [i \in 1..Len(csv_files) |-> i]
               /\ trace[k].n = SumN(commits)
    /\ pc \in {"probe", "import_csv_data", "read", "commit"}
         => LET begins == SelectSeq(trace, LAMBDA e : e.run = run /\ e.op = "begin")
            IN  /\ idx \in 1..Len(csv_files)
                /\ Len(begins) \in {idx - 1, idx}
                /\ \A i \in 1..Len(begins) : begins[i].file = i
                /\ pc = "read" => pos <= Len(csv_files[idx].rows)

C4_Witness ==
    /\ Len(csv_files) = 2
    /\ Happened(run, 1, "failed")
    /\ Happened(run, 2, "commit")
    /\ Happened(run, 0, "return")
    /\ total_rows > 0

\* C3: a file imported without a file-level error is followed by exactly one
\* commit, after its last flush and before the next file is touched; and the
\* rows of every file of the current call that was so committed are durable.
C3_CommitPerFile ==
    /\ \A k1, k2 \in 1..Len(trace) :
         (k1 < k2 /\ trace[k1].run = trace[k2].run /\ trace[k1].file > 0
            /\ trace[k2].file > 0)
         => trace[k1].file <= trace[k2].file
    /\ \A r \in 1..run, f \in 1..Len(csv_files) :
         LET mine == SelectSeq(trace, LAMBDA e : e.run = r /\ e.file = f)
             over == \E k \in 1..Len(trace) :
                        /\ trace[k].run = r
                        /\ \/ trace[k].op = "return"
                           \/ trace[k].file > f
         IN  (over /\ Happened(r, f, "open") /\ ~Happened(r, f, "failed"))
             => /\ Len(EventsOf(r, f, "commit")) = 1
                /\ mine[Len(mine)].op = "commit"
    /\ \A f \in 1..Len(csv_files) :
         Happened(run, f, "commit")
         => /\ RowsOf(db.rows, run, f) = ExpectedRows(run, f)
            /\ Len(RowsOf(db.rows, run, f)) = EventsOf(run, f, "commit")[1].n

C3_Witness ==
    /\ Len(csv_files) = 2
    /\ Happened(run, 1, "commit")
    /\ Len(RowsOf(db.rows, run, 1)) = 3
    /\ pc = "read"
    /\ idx = 2
    /\ batch # <<>>

\* C2 (as claimed): in every committed state each file's flushed rows are all
\* present or all absent, and the flushed rows of a file whose import failed
\* at file level are never made durable.
C2_WholeFileTransaction ==
    \A r \in 1..run, f \in 1..Len(csv_files) :
        LET present == Len(RowsOf(db.rows, r, f))
            flushed == SumN(SelectSeq(EventsOf(r, f, "insert"), LAMBDA e : e.ok))
        IN  /\ present \in {0, flushed}
            /\ Happened(r, f, "failed") => present = 0

\* C1 (as claimed, for runs in which the server rejects nothing): a file whose
\* rows the first call inserted and committed is found by the duplicate guard
\* in the second call, which issues no insert for it and adds none of its rows.
C1_ImportTwice ==
    (mode = "CALLS" /\ run = 2 /\ faults = 0)
    => \A f \in 1..Len(csv_files) :
         (Happened(1, f, "commit") /\ EventsOf(1, f, "commit")[1].n > 0)
         => /\ RowsOf(tx.rows, 2, f) = <<>>
            /\ ~Happened(2, f, "insert")
            /\ \A k \in 1..Len(trace) :
                 (trace[k].run = 2 /\ trace[k].file = f /\ trace[k].op = "probe")
                 => trace[k].ok

\* The position of the latest probe when nothing has touched the sink since
\* (0 otherwise): tx.rows is then the table the probe looked at.
FreshProbe ==
    LET probes == {k \in 1..Len(trace) : trace[k].op = "probe"}
        last == CHOOSE k \in probes : \A j \in probes : j <= k
    IN  IF probes = {} THEN 0
        ELSE IF \A j \in (last + 1)..Len(trace) : trace[j].op \in {"skip", "return"}
          THEN last
        ELSE 0

\* The query of the probe at position k was sent and failed.
QueryFailed(k) == k > 1 /\ trace[k - 1].op = "probe_error" /\ trace[k - 1].n = 1

\* A table row agrees with a coerced row on every column, NULL being a value
\* that agrees with NULL only.
Agrees(values, r) == \A i \in 1..Len(COLUMN_DEFINITIONS) : r.v[i] = values[i]

\* The file has a first record, it coerces, and a row of the table agrees with it.
FirstRowPresent(file, rows) ==
    /\ file.exists
    /\ file.rows # <<>>
    /\ file.rows[1].decodable
    /\ ~process_row(file.rows[1].row).raised
    /\ \E k \in 1..Len(rows) : Agrees(process_row(file.rows[1].row).values, rows[k])

\* C7 (as claimed): is_csv_file_imported is true iff the file has a first
\* record and the table has a row that agrees with its coerced form on every
\* column; it is false for a file without records and reads one record at most.
C7_GuardIff ==
    FreshProbe # 0 =>
      LET e == trace[FreshProbe]
          file == csv_files[e.file]
      IN  /\ e.ok <=> FirstRowPresent(file, tx.rows)
          /\ file.rows = <<>> => ~e.ok
          /\ e.n <= 1

\* C7 (amended): the same, for the probes whose query did not fail; a probe
\* whose query fails is false whatever the table holds.
C7_GuardIffQueryAnswered ==
    FreshProbe # 0 =>
      LET e == trace[FreshProbe]
          file == csv_files[e.file]
      IN  /\ e.ok <=> (~QueryFailed(FreshProbe) /\ FirstRowPresent(file, tx.rows))
          /\ file.rows = <<>> => ~e.ok
          /\ e.n <= 1

C7_Witness ==
    /\ FreshProbe # 0
    /\ trace[FreshProbe].ok
    /\ csv_files[trace[FreshProbe].file].rows[1] = RecB
    /\ \E k \in 1..Len(tx.rows) : tx.rows[k].v[2] # NULL

\* C8 (as claimed): a probe whose query fails is false, and the file is then
\* imported like a file never imported before: the failure of the probe alone
\* gets the file neither skipped nor reported as failed.
C8_ProbeFailureHarmless ==
    \A k \in 1..Len(trace) :
        (/\ trace[k].op = "probe"
         /\ QueryFailed(k)
         /\ faults = 1
         /\ \A j \in 1..(k - 2) : trace[j].ok
         /\ AllDecodable(csv_files[trace[k].file]))
        => /\ ~trace[k].ok
           /\ ~Happened(trace[k].run, trace[k].file, "skip")
           /\ ~Happened(trace[k].run, trace[k].file, "failed")

\* C9: a file the duplicate guard reports as imported is passed over: no
\* insert, no commit, the table and the running total as they were, and the
\* loop at the next file.
C9_SkipLeavesSink ==
    /\ [][(/\ pc = "probe"
           /\ \E k \in (Len(trace) + 1)..Len(trace') :
                trace'[k].op = "probe" /\ trace'[k].ok)
          => /\ tx' = tx
             /\ db' = db
             /\ txstatus' = txstatus
             /\ total_rows' = total_rows
             /\ idx' = idx + 1
             /\ pc' \in {"probe", "create_indexes", "idle"}]_vars
    /\ [](\A k \in 1..Len(trace) :
            (trace[k].op = "probe" /\ trace[k].ok)
            => /\ ~Happened(trace[k].run, trace[k].file, "open")
               /\ ~Happened(trace[k].run, trace[k].file, "insert")
               /\ ~Happened(trace[k].run, trace[k].file, "commit")
               /\ RowsOf(tx.rows, trace[k].run, trace[k].file) = <<>>)

C9_Witness ==
    /\ idx = 2
    /\ pc = "probe"
    /\ Happened(run, 1, "skip")
    /\ tx.rows # <<>>

\* C10 (as claimed): a run of the PER loader against a table that holds the
\* rows of an earlier run provisions the table without failing, keeps those
\* rows, and goes on to import.
C10_SecondRunProvisions ==
    (dataset = "PER" /\ mode = "MAIN" /\ RowsOf(db.rows, 1, 1) # <<>>)
    => \A k \in 1..Len(trace) :
         trace[k].op = "create_table" => trace[k].ok

\* The events of run r, in order.
RunEvents(r) == SelectSeq(trace, LAMBDA e : e.run = r)

\* C11: in a loader that drops the table before creating it, no row of an
\* earlier run outlives the create_table of the current run, and after a
\* complete second run the table holds exactly the rows the second run
\* inserted.
C11_SecondRunReplaces ==
    (dataset = "ORG" /\ mode = "MAIN")
    => /\ (\E k \in 1..Len(trace) :
             trace[k].run = run /\ trace[k].op = "create_table" /\ trace[k].ok)
          => \A j \in 1..Len(tx.rows) : tx.rows[j].src[1] = run
       /\ (run = 2 /\ pc = "idle" /\ exit_code = 0)
          => /\ \A j \in 1..Len(db.rows) : db.rows[j].src[1] = 2
             /\ (\A k \in 1..Len(trace) : trace[k].run = 2 => trace[k].ok)
                => Len(db.rows)
                     = SumN(SelectSeq(RunEvents(2), LAMBDA e : e.op = "insert"))

C11_Witness ==
    /\ dataset = "ORG"
    /\ mode = "MAIN"
    /\ run = 2
    /\ pc = "idle"
    /\ exit_code = 0
    /\ Happened(1, 1, "commit")
    /\ EventsOf(1, 1, "commit")[1].n = 3
    /\ EventsOf(1, 1, "commit")[1].ok
    /\ Len(db.rows) = 3
    /\ db.rows[1].src[1] = 2

\* C12 (as claimed): a run that finds the source folder missing has attempted
\* no work: it created, dropped and committed nothing, so that a first such
\* run leaves the database without the table.
C12_MissingFolderNoWork ==
    \A k \in 1..Len(trace) :
        (trace[k].op = "get_csv_files" /\ ~trace[k].ok)
        => /\ \A j \in 1..k :
                trace[j].run = trace[k].run
                => trace[j].op \notin {"create_table", "commit"}
           /\ (run = 1 /\ mode = "MAIN") => db = EmptyDb

\* C13 (as claimed): process_row turns each of the three NULL markers into
\* NULL, whatever the declared type of the column.
C13_MarkersAreNull ==
    (fn = "process_row" /\ arg.s \in {<<>>, Marker1, Marker2}) => result = NULL

\* C14 (as claimed): parse_integer never raises; it truncates what parses as
\* a number and returns NULL for everything else, infinities and not-a-number
\* included.
C14_ParseIntegerTotal ==
    fn = "parse_integer"
    => /\ result # RAISED
       /\ arg = TextV(<<"7", ".", "0">>) => result = IntV(7)
       /\ arg = TextV(<<"4", "2", ".", "0">>) => result = IntV(42)
       /\ arg = TextV(<<"-", "3", ".", "9">>) => result = IntV(-3)
       /\ arg \in {NULL, TextV(<<>>), TextV(<<"a", "b", "c">>), TextV(<<"n", "a", "n">>),
                   TextV(<<"i", "n", "f">>), TextV(<<"1", "e", "9", "9", "9">>)}
            => result = NULL

\* The arguments tried that spell true, and those that spell false, in any
\* letter case.
TrueArgs ==
    {TextV(s) : s \in {<<"t", "r", "u", "e">>, <<"T", "R", "U", "E">>, <<"T">>,
                        <<"1">>, <<"Y", "e", "s">>}}
FalseArgs ==
    {TextV(s) : s \in {<<"f", "a", "l", "s", "e">>, <<"F", "a", "l", "s", "e">>,
                        <<"f">>, <<"0">>, <<"N", "O">>}}

\* C15: parse_boolean returns a value for every argument: true for the
\* spellings of true, false for the spellings of false, NULL for anything
\* else (None, '', text with white space around it, other words).
C15_ParseBooleanTable ==
    fn = "parse_boolean"
    => result = IF arg \in TrueArgs THEN BoolV(TRUE)
                ELSE IF arg \in FalseArgs THEN BoolV(FALSE)
                ELSE NULL

C15_Witness ==
    /\ fn = "parse_boolean"
    /\ arg = TextV(<<"Y", "e", "s">>)
    /\ result = BoolV(TRUE)

\* The entries of a folder that get_csv_files is to return.
WantedPaths(folder) ==
    {PathStr(folder.names[i]) : i \in
        {j \in 1..Len(folder.names) :
            \/ EndsWith(folder.names[j], <<".", "c", "s", "v">>)
            \/ EndsWith(folder.names[j], <<".", "c", "s", "v", ".", "g", "z">>)}}

\* C16: get_csv_files raises when the folder does not exist; otherwise it
\* returns the entries that end in .csv or .csv.gz, each once, in ascending
\* order of their path, whatever the order of the directory.
C16_Enumerates ==
    fn = "get_csv_files"
    => IF ~arg.exists THEN result.raised
       ELSE /\ ~result.raised
            /\ {result.files[i] : i \in 1..Len(result.files)} = WantedPaths(arg)
            /\ Len(result.files) = Cardinality(WantedPaths(arg))
            /\ \A i \in 1..(Len(result.files) - 1) :
                 StrLess(result.files[i], result.files[i + 1])
            /\ arg.names = << <<"b", ".", "c", "s", "v">>,
                              <<"a", ".", "c", "s", "v", ".", "g", "z">>,
                              <<"c", ".", "c", "s", "v">> >>
                 => result.files = << PathStr(<<"a", ".", "c", "s", "v", ".", "g", "z">>),
                                      PathStr(<<"b", ".", "c", "s", "v">>),
                                      PathStr(<<"c", ".", "c", "s", "v">>) >>

C16_Witness ==
    /\ fn = "get_csv_files"
    /\ arg.exists
    /\ arg.names = << <<"b", ".", "c", "s", "v">>,
                      <<"a", ".", "c", "s", "v", ".", "g", "z">>,
                      <<"c", ".", "c", "s", "v">> >>
    /\ Len(result.files) = 3
    /\ result.files[1] = PathStr(<<"a", ".", "c", "s", "v", ".", "g", "z">>)

\* C17 (as claimed): create_indexes attempts every index once, in list order;
\* an index whose own creation did not fail exists after the commit that
\* follows; and a failed index alone does not make the run exit non-zero.
C17_IndexFailureLocal ==
    /\ pc = "statistics"
       => LET ix == EventsOf(run, 0, "index")
          IN  /\ [k \in 1..Len(ix) |-> ix[k].n] = [k \in 1..Len(Indexes(dataset)) |-> k]
              /\ \A k \in 1..Len(ix) : ix[k].ok => Indexes(dataset)[k] \in db.indexes
    /\ (pc = "idle" /\ exit_code = 1 /\ Happened(run, 0, "index"))
       => \E k \in 1..Len(trace) :
             trace[k].run = run /\ trace[k].op = "statistics" /\ ~trace[k].ok

\* C18 (as claimed): a line that cannot be decoded is skipped like a record
\* that cannot be coerced: a readable file that holds such a line, and whose
\* inserts all succeed, is not reported as failed.
C18_DecodeFailureSkipsLine ==
    \A r \in 1..run, f \in 1..Len(csv_files) :
        (/\ csv_files[f].exists
         /\ ~AllDecodable(csv_files[f])
         /\ NoInsertFailed(r, f))
        => ~Happened(r, f, "failed")

\* main() has ended after its statistics: with status 0, or with status 1
\* because the server rejected a statistics query.
RunEnded ==
    /\ pc = "idle"
    /\ trace # <<>>
    /\ trace[Len(trace)].op = "statistics"
    /\ trace[Len(trace)].run = run
    /\ Happened(run, 0, "index")
    /\ exit_code = IF trace[Len(trace)].ok THEN 0 ELSE 1

\* C19: a run that has provisioned the table and found files goes through
\* import_multiple_files to create_indexes and the statistics and ends with
\* status 0, however many files fail or are skipped; only a statistics query
\* the server rejects ends it with status 1.
C19_RunCompletes == (pc = "import_multiple_files") ~> RunEnded

C19_Witness ==
    /\ RunEnded
    /\ exit_code = 0
    /\ Len(csv_files) = 2
    /\ Happened(run, 1, "failed")
    /\ Happened(run, 2, "failed")

\* C20: a file handle is open only while import_csv_data reads the file, so
\* that it is closed whenever import_csv_data or is_csv_file_imported has
\* returned or raised; and when main() has ended after a successful connect,
\* the cursor and the connection are closed and no uncommitted work is left.
C20_ResourcesReleased ==
    /\ fh = "open" => pc = "read"
    /\ (mode = "MAIN" /\ pc = "idle" /\ run > 0)
       => IF RunEvents(run) = <<>>
            THEN connection = "None" /\ cursor = "None" /\ exit_code = 1
            ELSE /\ connection = "closed"
                 /\ cursor = "closed"
                 /\ exit_code \in {0, 1}
                 /\ exit_code = 1 => (tx = db /\ txstatus = "OK")

C20_Witness ==
    /\ mode = "MAIN"
    /\ dataset = "PER"
    /\ pc = "idle"
    /\ exit_code = 1
    /\ connection = "closed"
    /\ cursor = "closed"
    /\ fh = "closed"
    /\ Happened(run, 1, "probe")
    /\ Happened(run, 1, "failed")
    /\ csv_files[1].exists
    /\ ~AllDecodable(csv_files[1])
    /\ Happened(run, 0, "statistics")

\* C21: for a TEXT, DATE or TIMESTAMP column process_row returns the raw
\* text as it is, character for character, unless it is a NULL marker.
C21_TextPassesThrough ==
    (/\ fn = "process_row"
     /\ col_type \in {"TEXT", "DATE", "TIMESTAMP"}
     /\ arg.s \notin {<<>>, Marker1, Marker2})
    => result = TextV(arg.s)

C21_Witness ==
    /\ fn = "process_row"
    /\ col_type = "TIMESTAMP"
    /\ arg = TextV(<<"t", "r", "u", "e", " ">>)
    /\ result = TextV(<<"t", "r", "u", "e", " ">>)

\* C22 (as claimed): the batch of import_csv_data never holds more than
\* batch_size rows, and between two records it holds fewer: a flush, whether
\* the bulk insert succeeds or raises, leaves it empty.
C22_BatchBounded ==
    /\ Len(batch) <= batch_size
    /\ pc = "read" => Len(batch) < batch_size

AsText(field) == IF field \in {<<>>, Marker1} THEN NULL ELSE TextV(field)
AsInteger(field) == IF field = <<"7", ".", "0">> THEN IntV(7) ELSE NULL

\* C24 (as claimed): for every record process_row returns one value per
\* column of the schema, in the order of the column list: the value of the
\* field under exactly that key, NULL when the record has no such key,
\* whatever other keys the record has.
C24_OneValuePerColumn ==
    fn = "process_row"
    => /\ ~result.raised
       /\ Len(result.values) = Len(columns)
       /\ columns = <<"RBID", "RN">>
       /\ result.values[1] = IF "RBID" \in DOMAIN arg THEN AsText(arg["RBID"]) ELSE NULL
       /\ result.values[2] = IF "RN" \in DOMAIN arg THEN AsInteger(arg["RN"]) ELSE NULL
       /\ \A i \in 1..Len(columns) : WhereClause(result.values)[i].col = i

\* C25 (as claimed): when the probe of a file has read its first record and
\* answered false, the import of the file that follows starts at the first
\* record again and inserts every record of the file. (The server rejects no
\* statement, or none but the query of that probe.)
C25_FreshReadPosition ==
    \A k \in 1..Len(trace) :
        LET f == trace[k].file
            last == trace[Len(trace)]
        IN  (/\ trace[k].op = "probe"
             /\ ~trace[k].ok
             /\ trace[k].n = 1
             /\ AllDecodable(csv_files[f])
             /\ \/ faults = 0
                \/ faults = 1 /\ QueryFailed(k) /\ \A j \in 1..(k - 2) : trace[j].ok
             /\ last.run = trace[k].run
             /\ last.file = f
             /\ last.op \in {"commit", "failed"})
            => [j \in 1..Len(RowsOf(tx.rows, last.run, f)) |->
                    RowsOf(tx.rows, last.run, f)[j].src[3]]
                 = [j \in 1..Len(csv_files[f].rows) |-> j]

\* C26: in a run of main() the table is created and that is committed before
\* any file is touched; an index is created only when every file of the list
\* has been attempted and no file is touched after it; the indexes are
\* created in one pass, and a commit follows the last of them; a run that
\* ends with status 0 has been through all of it.
C26_PhasesOrdered ==
    mode = "MAIN"
    => /\ pc \in {"import_multiple_files", "probe", "import_csv_data", "read", "commit"}
          => db.exists
       /\ (pc = "idle" /\ run >= 1 /\ exit_code = 0)
          => /\ Len(EventsOf(run, 0, "index")) = Len(Indexes(dataset))
             /\ Happened(run, 0, "statistics")
       /\ \A k \in 1..Len(trace) :
            /\ trace[k].file > 0
               => \E i, j \in 1..(k - 1) :
                    /\ i < j
                    /\ trace[i].run = trace[k].run /\ trace[j].run = trace[k].run
                    /\ trace[i].op = "create_table" /\ trace[i].ok
                    /\ trace[j].op = "commit" /\ trace[j].file = 0 /\ trace[j].ok
            /\ trace[k].op = "index"
               => /\ \A f \in 1..Len(csv_files) :
                       \E j \in 1..(k - 1) :
                          /\ trace[j].run = trace[k].run
                          /\ trace[j].op = "begin"
                          /\ trace[j].file = f
                  /\ \A j \in (k + 1)..Len(trace) :
                       trace[j].run = trace[k].run => trace[j].file = 0
                  /\ Len(EventsOf(trace[k].run, 0, "index")) = Len(Indexes(dataset))
                  /\ (trace[k].n = Len(Indexes(dataset)) /\ k < Len(trace))
                       => trace[k + 1].op = "commit" /\ trace[k + 1].run = trace[k].run

C26_Witness ==
    /\ mode = "MAIN"
    /\ run = 2
    /\ pc = "idle"
    /\ exit_code = 0
    /\ Len(csv_files) = 2
    /\ Happened(2, 2, "commit")
    /\ Happened(2, 0, "index")
    /\ trace[Len(trace)].op = "statistics"

\* C27: when import_multiple_files returns, the total it returns is the number
\* of rows of this call in the committed table.
C27_TotalIsCommitted ==
    (/\ trace # <<>>
     /\ trace[Len(trace)].op = "return")
    => trace[Len(trace)].n
         = Len(SelectSeq(db.rows, LAMBDA x : x.src[1] = trace[Len(trace)].run))

\* The jobs the driver has started, in order.
Starts == SelectSeq(history, LAMBDA e : e.op = "start")

\* C28: the driver runs the jobs one at a time in the order ORG, PER,
\* RAW_FEED_PER: the k-th job started is the k-th of the list or a later one,
\* later than the one before, and it starts only once the job before has
\* ended; after a failed job and an answer other than yes no job starts; and
\* after an answer other than yes to the first prompt no job starts and the
\* exit status is 0.
C28_OneAtATimeInOrder ==
    /\ \A k \in 1..Len(history) :
         history[k].op = "start"
         => /\ history[k].v = TextV(import_jobs[history[k].job].script)
            /\ \A i \in 1..(k - 1) :
                 history[i].op = "start"
                 => /\ history[i].job < history[k].job
                    /\ \E j \in (i + 1)..(k - 1) :
                         history[j].op = "end" /\ history[j].job = history[i].job
    /\ \A k \in 1..Len(history) :
         (/\ history[k].op = "input"
          /\ history[k].v.t = "str"
          /\ Lower(history[k].v.s) # <<"y">>)
         => /\ \A j \in (k + 1)..Len(history) : history[j].op # "start"
            /\ (k = 1 /\ master_pc = "exited") => master_exit = 0
            /\ k = 1 => Starts = <<>>

C28_Witness ==
    /\ master_pc = "exited"
    /\ Len(Starts) = 2
    /\ Len(results) = 2
    /\ ~results[1].success
    /\ ~results[2].success
    /\ response = TextV(<<"n">>)

\* The operator answered yes to the first prompt.
Confirmed ==
    /\ history # <<>>
    /\ history[1].v.t = "str"
    /\ Lower(history[1].v.s) = <<"y">>

\* C29: once the operator has confirmed, a driver that has ended has logged
\* its summary; its exit status is 1 when a started job failed and 0 when
\* none did; the summary lists the started jobs, each once, in the order they
\* ran, and its two counts add up to their number.
C29_SummaryAndStatus ==
    (Confirmed /\ master_pc = "exited")
    => /\ summary # NULL
       /\ master_exit = IF \E i \in 1..Len(results) : ~results[i].success THEN 1 ELSE 0
       /\ [i \in 1..Len(summary.lines) |-> summary.lines[i].name]
            = [i \in 1..Len(Starts) |-> import_jobs[Starts[i].job].name]
       /\ summary.succeeded + summary.failed = Len(Starts)

\* C30: in the single-file mode of the generic loader, a run in which the
\* import of the file has failed ends with a non-zero exit status, the
\* transaction rolled back and the connection closed; the committed table
\* exists and is empty: no row of the file, flushed or not, and no row of an
\* earlier run is in it.
C30_SingleFileFailureRollsBack ==
    (/\ mode = "SINGLE"
     /\ run >= 1
     /\ Happened(run, 1, "failed"))
    => /\ pc = "idle"
       /\ exit_code = 1
       /\ db.exists
       /\ db.rows = <<>>
       /\ tx = db
       /\ txstatus = "OK"
       /\ connection = "closed"
       /\ ~Happened(run, 1, "commit")

C30_Witness ==
    /\ mode = "SINGLE"
    /\ run = 2
    /\ pc = "idle"
    /\ exit_code = 1
    /\ Len(SelectSeq(trace, LAMBDA e : e.run = 1 /\ e.op = "commit" /\ e.file = 1 /\ e.n > 0)) = 1
    /\ Len(SelectSeq(trace, LAMBDA e : e.run = 2 /\ e.op = "insert" /\ e.ok)) >= 1
    /\ Happened(2, 1, "failed")
    /\ db = CreatedDb

====
